---- MODULE Spec2Model ----
(***************************************************************************)
(* The write-ahead-log writer of db/log_writer.cc: Writer::AddRecord       *)
(* fragments a logical record into physical chunks that never straddle a   *)
(* kBlockSize block, and Writer::EmitPhysicalRecord frames each chunk      *)
(* (7-byte header, payload) and hands it to the WritableFile sink.         *)
(*                                                                         *)
(* The byte stream of the sink is kept as a sequence of runs, one run per  *)
(* Append the sink accepted bytes from.  A run of padding stands for n     *)
(* bytes of value 0; a run of payload stands for the n bytes               *)
(* slice[from .. from+n-1] of the record of call `call`; a header run      *)
(* carries the header bytes 4, 5 and 6 as numbers.                         *)
(***************************************************************************)
EXTENDS Integers, Sequences, FiniteSets, TLC

\* ---------------------------------------------------------------- bounds
\* Number of AddRecord calls made on one Writer.
MaxCalls == 2

\* Number of sink operations (Append or Flush) that fail in one run.
MaxFailures == 2

\* Preemptions of a caller in the middle of a call, over a behaviour.
MaxPreemptions == 1

\* The sink operation of a call that is made to fail is one of its first
\* MaxFailAt.
MaxFailAt == 4

\* --------------------------------------------------- constants of the format
kBlockSize == 32768

kHeaderSize == 7

kZeroType == 0

kFullType == 1

kFirstType == 2

kMiddleType == 3

kLastType == 4

\* assert(length <= 0xffff)
MaxChunkLength == 65535

\* ------------------------------------------------------------------ inputs
\* Payload lengths handed to AddRecord: empty, small, one that leaves 3 bytes
\* in a fresh block, exactly one block's worth (kBlockSize - kHeaderSize),
\* one more, two blocks' worth, and a record of three chunks.
PayloadLengths == {0, 100, 32758, 32761, 32762, 65522, 70000}

\* dest_length of Writer(dest, dest_length); 0 is also the fresh writer
\* Writer(dest).  The others leave 7, 6, 3 and 1 bytes in the block, the
\* last one in the third block of the stream.
DestLengths == {0, 32761, 32762, 32765, 98303}

VARIABLES
    block_offset_,    \* Writer::block_offset_
    dest_,            \* the bytes in the sink *dest_, as a sequence of runs
    pc,               \* where the AddRecord call in progress stands
    calls,            \* number of AddRecord calls made so far
    failures,         \* number of sink operations that have failed so far
    slice,            \* slice.size() of the call in progress (or last call)
    ptr,              \* ptr - slice.data()
    left,             \* left
    begin,            \* begin
    s,                \* Status s: "ok" or "IOError"
    fragment_length,  \* fragment_length, the length of the chunk in flight
    type,             \* type, the RecordType of the chunk in flight
    buf,              \* header buf[4..6] of the chunk in flight
    ops,              \* sink operations issued by the call, with results
    emitted,          \* EmitPhysicalRecord calls made by the call
    start,            \* cursor and sink contents when the call began
    suspended,        \* the locals of a second caller that is not running
    preempted,        \* times a caller was switched out in the middle of a call
    twin,             \* the comparison of a continuing and a resumed writer
    header            \* one header being formatted, with its inputs

vars == <<block_offset_, dest_, pc, calls, failures, slice, ptr, left, begin,
          s, fragment_length, type, buf, ops, emitted, start, suspended,
          preempted, twin, header>>

\* What the steps of a call leave alone.
aside == <<suspended, preempted, twin, header>>

\* ----------------------------------------------------------------- helpers
RECURSIVE SumN(_)
SumN(runs) == IF runs = <<>> THEN 0 ELSE Head(runs).n + SumN(Tail(runs))

\* Number of bytes in the sink.
DestSize == SumN(dest_)

Run(kind, n, from, b4, b5, b6) ==
    [kind |-> kind, n |-> n, call |-> start.id, from |-> from,
     b4 |-> b4, b5 |-> b5, b6 |-> b6]

\* The sink of a writer constructed over dest_length bytes already written.
Existing(dest_length) ==
    IF dest_length = 0 THEN <<>>
    ELSE <<[kind |-> "old", n |-> dest_length, call |-> 0, from |-> 0,
            b4 |-> 0, b5 |-> 0, b6 |-> 0]>>

\* ------------------------------------------------------------------- sink
\* WritableFile::Append / Flush.  A successful Append of n bytes adds all n;
\* a failed one may have added any proper prefix (none, or about half).
FailedAppendWritten(n) == {0, n \div 2}

AppendOutcomes(n) ==
    {[ok |-> TRUE, w |-> n]} \cup
    (IF failures < MaxFailures
       THEN {[ok |-> FALSE, w |-> k] : k \in FailedAppendWritten(n)}
       ELSE {})

FlushOutcomes ==
    {[ok |-> TRUE, w |-> 0]} \cup
    (IF failures < MaxFailures THEN {[ok |-> FALSE, w |-> 0]} ELSE {})

StatusOf(r) == IF r.ok THEN "ok" ELSE "IOError"

Op(what, n, r) == [what |-> what, n |-> n, ok |-> r.ok, w |-> r.w]

\* ------------------------------------------------------- Writer::Writer
\* Mutant: the resuming constructor starts at the head of a block.
InitialOffset_Zero(dest_length) == 0

\* Mutant: the constructor keeps dest_length itself as the cursor.
InitialOffset_NoModulo(dest_length) == dest_length

\* block_offset_(dest_length % kBlockSize); the fresh writer starts at 0.
InitialOffset(dest_length) == dest_length % kBlockSize

\* ------------------------------------------------- Writer::AddRecord pieces
\* const int leftover = kBlockSize - block_offset_;
Leftover(bo) == kBlockSize - bo

\* Mutant: switches block also when exactly a header still fits.
SwitchToNewBlock_OffByOne(leftover) == leftover <= kHeaderSize

\* if (leftover < kHeaderSize)
SwitchToNewBlock(leftover) == leftover < kHeaderSize

\* Mutant: the trailer is never filled, the cursor is reset all the same.
FillTrailer_Never(leftover) == FALSE

\* if (leftover > 0)  -- the trailer is filled only when there is one
FillTrailer(leftover) == leftover > 0

\* Mutant: reserves one byte more than the header takes.
Avail_OffByOne(bo) == kBlockSize - bo - kHeaderSize - 1

\* const size_t avail = kBlockSize - block_offset_ - kHeaderSize;
Avail(bo) == kBlockSize - bo - kHeaderSize

\* Mutant: a fragment that fills the block is cut one byte short.
FragmentLength_OffByOne(l, avail) == IF l < avail THEN l ELSE avail - 1

\* Mutant: the fragment is not clamped to the room in the block.
FragmentLength_NoClamp(l, avail) == l

\* const size_t fragment_length = (left < avail) ? left : avail;
FragmentLength(l, avail) == IF l < avail THEN l ELSE avail

\* const bool end = (left == fragment_length);
End(l, fl) == l = fl

\* Mutant: the begin && end case is missing, a whole record is typed First.
TypeOf_NoFull(b, e) ==
    IF b THEN kFirstType
    ELSE IF e THEN kLastType
    ELSE kMiddleType

\* if (begin && end) kFullType, else if (begin) kFirstType, ...
TypeOf(b, e) ==
    IF b /\ e THEN kFullType
    ELSE IF b THEN kFirstType
    ELSE IF e THEN kLastType
    ELSE kMiddleType

\* Mutant: the data pointer is not moved past the fragment.
NextPtr_Stuck(p, fl) == p

\* ptr += fragment_length;
NextPtr(p, fl) == p + fl

\* Mutant: the remaining length is not reduced by the fragment.
NextLeft_Stuck(l, fl) == l

\* left -= fragment_length;
NextLeft(l, fl) == l - fl

\* Mutant: the loop goes on when nothing is left.
LoopAgain_OffByOne(st, l) == st = "ok" /\ l >= 0

\* Mutant: the loop goes on after a failed chunk.
LoopAgain_IgnoresStatus(st, l) == l > 0

\* while (s.ok() && left > 0)
LoopAgain(st, l) == st = "ok" /\ l > 0

\* -------------------------------------- Writer::EmitPhysicalRecord pieces
\* Mutant: the high byte of the length is not stored.
HeaderOf_LowByteOnly(t, length) ==
    [b4 |-> length % 256, b5 |-> 0, b6 |-> t]

\* buf[4] = length & 0xff; buf[5] = length >> 8 (kept as a char); buf[6] = t
HeaderOf(t, length) ==
    [b4 |-> length % 256, b5 |-> (length \div 256) % 256, b6 |-> t]

\* Mutant: the payload is appended whether or not the header went in.
AfterHeader_Unchecked(ok) == "data"

\* Status s = dest_->Append(header); if (s.ok()) { append the payload
AfterHeader(ok) == IF ok THEN "data" ELSE "adv"

\* Mutant: the chunk is never flushed.
AfterPayload_NoFlush(ok) == "adv"

\* s = dest_->Append(payload); if (s.ok()) { s = dest_->Flush(); }
AfterPayload(ok) == IF ok THEN "flush" ELSE "adv"

\* Mutant: the cursor is set to the chunk's size, not advanced by it.
AdvancedOffset_Assigned(bo, length) == kHeaderSize + length

\* Mutant: the cursor advances by the payload only.
AdvancedOffset_NoHeader(bo, length) == bo + length

\* block_offset_ += kHeaderSize + length;
AdvancedOffset(bo, length) == bo + kHeaderSize + length

\* ------------------------------------------------------------------ Init
\* The locals of a caller that has not called AddRecord yet.
IdleCaller(off, dest) ==
    [pc |-> "idle", slice |-> 0, ptr |-> 0, left |-> 0, begin |-> FALSE,
     s |-> "ok", fragment_length |-> 0, type |-> kZeroType,
     buf |-> HeaderOf(kZeroType, 0), ops |-> <<>>, emitted |-> <<>>,
     start |-> [off |-> off, dest |-> dest, id |-> 0]]

NoTwin == [phase |-> "off"]

NoHeader == [phase |-> "off"]

\* Writer(dest) and Writer(dest, dest_length): the sink already holds
\* dest_length bytes.
Init ==
    \E dest_length \in DestLengths :
        /\ block_offset_ = InitialOffset(dest_length)
        /\ dest_ = Existing(dest_length)
        /\ suspended = IdleCaller(InitialOffset(dest_length),
                                  Existing(dest_length))
        /\ preempted = 0
        /\ twin = NoTwin
        /\ header = NoHeader
        /\ pc = "idle"
        /\ calls = 0
        /\ failures = 0
        /\ slice = 0
        /\ ptr = 0
        /\ left = 0
        /\ begin = FALSE
        /\ s = "ok"
        /\ fragment_length = 0
        /\ type = kZeroType
        /\ buf = HeaderOf(kZeroType, 0)
        /\ ops = <<>>
        /\ emitted = <<>>
        /\ start = [off |-> InitialOffset(dest_length),
                    dest |-> Existing(dest_length), id |-> 0]

\* --------------------------------------------------------------- actions
\* Status Writer::AddRecord(const Slice& slice): entry, up to the do.
AddRecord ==
    /\ pc = "idle"
    /\ calls < MaxCalls
    /\ \E size \in PayloadLengths :
        /\ slice' = size
        /\ left' = size
    /\ ptr' = 0
    /\ s' = "ok"
    /\ begin' = TRUE
    /\ calls' = calls + 1
    /\ ops' = <<>>
    /\ emitted' = <<>>
    /\ start' = [off |-> block_offset_, dest |-> dest_, id |-> calls + 1]
    /\ pc' = "top"
    /\ UNCHANGED <<block_offset_, dest_, failures, fragment_length, type, buf>>
    /\ UNCHANGED aside

\* Top of the loop body: leftover, its assertion, and the switch to a new
\* block.  The Status of the padding Append is dropped.
SwitchBlock ==
    /\ pc = "top"
    /\ LET leftover == Leftover(block_offset_) IN
        IF ~(leftover >= 0)
        THEN /\ pc' = "abort"
             /\ UNCHANGED <<block_offset_, dest_, failures, ops>>
        ELSE IF SwitchToNewBlock(leftover)
        THEN /\ IF FillTrailer(leftover)
                THEN \E r \in AppendOutcomes(leftover) :
                        /\ dest_' = Append(dest_, Run("pad", r.w, 0, 0, 0, 0))
                        /\ ops' = Append(ops, Op("pad", leftover, r))
                        /\ failures' = IF r.ok THEN failures ELSE failures + 1
                ELSE UNCHANGED <<dest_, failures, ops>>
             /\ block_offset_' = 0
             /\ pc' = "size"
        ELSE /\ pc' = "size"
             /\ UNCHANGED <<block_offset_, dest_, failures, ops>>
    /\ UNCHANGED <<calls, slice, ptr, left, begin, s, fragment_length, type,
                   buf, emitted, start>>
    /\ UNCHANGED aside

\* The invariant assertion, avail, fragment_length, the type, and the entry
\* of EmitPhysicalRecord: its two assertions and the header.
SizeChunk ==
    /\ pc = "size"
    /\ LET avail == Avail(block_offset_)
           fl == FragmentLength(left, avail)
           t == TypeOf(begin, End(left, fl))
       IN IF ~(avail >= 0)
             \/ ~(fl <= MaxChunkLength)
             \/ ~(block_offset_ + kHeaderSize + fl <= kBlockSize)
          THEN /\ pc' = "abort"
               /\ UNCHANGED <<fragment_length, type, buf, emitted>>
          ELSE /\ fragment_length' = fl
               /\ type' = t
               /\ buf' = HeaderOf(t, fl)
               /\ emitted' = Append(emitted,
                      [type |-> t, length |-> fl, off |-> block_offset_,
                       pos |-> DestSize, from |-> ptr])
               /\ pc' = "hdr"
    /\ UNCHANGED <<block_offset_, dest_, calls, failures, slice, ptr, left,
                   begin, s, ops, start>>
    /\ UNCHANGED aside

\* Status s = dest_->Append(Slice(buf, kHeaderSize));
AppendHeader ==
    /\ pc = "hdr"
    /\ \E r \in AppendOutcomes(kHeaderSize) :
        /\ dest_' = Append(dest_, Run("hdr", r.w, ptr, buf.b4, buf.b5, buf.b6))
        /\ ops' = Append(ops, Op("hdr", kHeaderSize, r))
        /\ failures' = IF r.ok THEN failures ELSE failures + 1
        /\ s' = StatusOf(r)
        /\ pc' = AfterHeader(r.ok)
    /\ UNCHANGED <<block_offset_, calls, slice, ptr, left, begin,
                   fragment_length, type, buf, emitted, start>>
    /\ UNCHANGED aside

\* s = dest_->Append(Slice(ptr, length));
AppendPayload ==
    /\ pc = "data"
    /\ \E r \in AppendOutcomes(fragment_length) :
        /\ dest_' = Append(dest_, Run("data", r.w, ptr, 0, 0, 0))
        /\ ops' = Append(ops, Op("data", fragment_length, r))
        /\ failures' = IF r.ok THEN failures ELSE failures + 1
        /\ s' = StatusOf(r)
        /\ pc' = AfterPayload(r.ok)
    /\ UNCHANGED <<block_offset_, calls, slice, ptr, left, begin,
                   fragment_length, type, buf, emitted, start>>
    /\ UNCHANGED aside

\* s = dest_->Flush();
Flush ==
    /\ pc = "flush"
    /\ \E r \in FlushOutcomes :
        /\ ops' = Append(ops, Op("flush", 0, r))
        /\ failures' = IF r.ok THEN failures ELSE failures + 1
        /\ s' = StatusOf(r)
    /\ pc' = "adv"
    /\ UNCHANGED <<block_offset_, dest_, calls, slice, ptr, left, begin,
                   fragment_length, type, buf, emitted, start>>
    /\ UNCHANGED aside

\* block_offset_ += kHeaderSize + length; return s;  and back in AddRecord:
\* ptr += fragment_length; left -= fragment_length; begin = false; and the
\* loop test, which either iterates or returns s.
Advance ==
    /\ pc = "adv"
    /\ block_offset_' = AdvancedOffset(block_offset_, fragment_length)
    /\ ptr' = NextPtr(ptr, fragment_length)
    /\ left' = NextLeft(left, fragment_length)
    /\ begin' = FALSE
    /\ pc' = IF LoopAgain(s, left') THEN "top" ELSE "idle"
    /\ UNCHANGED <<dest_, calls, failures, slice, s, fragment_length, type,
                   buf, ops, emitted, start>>
    /\ UNCHANGED aside

Next ==
    \/ AddRecord
    \/ SwitchBlock
    \/ SizeChunk
    \/ AppendHeader
    \/ AppendPayload
    \/ Flush
    \/ Advance

Spec == Init /\ [][Next]_vars

\* ------------------------------------------- two callers, no mutual exclusion
\* The locals of the caller that is running.
Running ==
    [pc |-> pc, slice |-> slice, ptr |-> ptr, left |-> left, begin |-> begin,
     s |-> s, fragment_length |-> fragment_length, type |-> type,
     buf |-> buf, ops |-> ops, emitted |-> emitted, start |-> start]

\* The scheduler takes the processor from the running caller and gives it to
\* the other one.  Both callers use the same Writer: block_offset_ and the
\* sink are shared, the locals of AddRecord and EmitPhysicalRecord are not.
\* A switch between two sink operations or cursor updates of a call is a
\* preemption, counted in preempted; with external mutual exclusion there
\* is none.
Yield ==
    /\ suspended.pc # "abort"
    /\ suspended' = Running
    /\ pc' = suspended.pc
    /\ slice' = suspended.slice
    /\ ptr' = suspended.ptr
    /\ left' = suspended.left
    /\ begin' = suspended.begin
    /\ s' = suspended.s
    /\ fragment_length' = suspended.fragment_length
    /\ type' = suspended.type
    /\ buf' = suspended.buf
    /\ ops' = suspended.ops
    /\ emitted' = suspended.emitted
    /\ start' = suspended.start
    /\ pc # "idle" => preempted < MaxPreemptions
    /\ preempted' = IF pc # "idle" THEN preempted + 1 ELSE preempted
    /\ UNCHANGED <<block_offset_, dest_, calls, failures, twin, header>>

\* Payload lengths the two callers pass: empty, one chunk, two chunks.
ConcurrentPayloads == {0, 100, 32762}

\* A step of the running caller's call; the sink does not fail.
CallStep ==
    /\ Next
    /\ failures' = failures
    /\ pc = "idle" => slice' \in ConcurrentPayloads

NextConcurrent ==
    \/ CallStep
    \/ Yield

SpecConcurrent == Init /\ [][NextConcurrent]_vars

\* ------------------------------------- a continuing and a resumed writer
\* A fresh writer makes some calls that all succeed and leaves n bytes in
\* the sink.  From there the same calls, meeting the same sink results, are
\* made twice: first by the writer itself, then by a Writer constructed
\* with dest_length = n.  twin holds n, the calls, the sink results and what
\* the first run appended.
ResumePayloads == {0, 100, 32758, 32761, 70000}

InitFresh == Init /\ dest_ = <<>>

\* The calls to come and the sink operation that fails (failCall = 0: none;
\* otherwise operation failOp of call failCall fails, an Append having
\* written half of its bytes or none).
Plans(k) ==
    [todo : [1..k -> ResumePayloads], failCall : 0..k,
     failOp : 1..MaxFailAt, failHalf : BOOLEAN]

\* The step gives AddRecord the payload the plan names and the sink
\* operation the result the plan names.
Conforms ==
    /\ pc = "idle" =>
          /\ calls - twin.calls0 < Len(twin.plan.todo)
          /\ slice' = twin.plan.todo[calls - twin.calls0 + 1]
    /\ Len(ops') > Len(ops) =>
          LET o == ops'[Len(ops')]
              planned == /\ calls - twin.calls0 = twin.plan.failCall
                         /\ Len(ops') = twin.plan.failOp
          IN /\ o.ok = ~planned
             /\ planned =>
                   o.w = IF twin.plan.failHalf /\ o.what # "flush"
                         THEN o.n \div 2 ELSE 0

\* The calls of the fresh writer before the comparison; they all succeed.
FirstCalls ==
    /\ twin.phase = "off"
    /\ Next
    /\ failures' = failures
    /\ pc = "idle" => slice' \in ResumePayloads

\* Between two calls the comparison begins: the sink holds n bytes.
Fork ==
    /\ twin.phase = "off"
    /\ pc = "idle"
    /\ calls < MaxCalls
    /\ \E k \in 1..(MaxCalls - calls) :
         \E plan \in Plans(k) :
            /\ plan.failCall = 0 => plan.failOp = 1 /\ ~plan.failHalf
            /\ twin' = [phase |-> "continued", n |-> DestSize,
                        base |-> Len(dest_), calls0 |-> calls,
                        plan |-> plan, appended |-> <<>>]
    /\ UNCHANGED <<block_offset_, dest_, pc, calls, failures, slice, ptr,
                   left, begin, s, fragment_length, type, buf, ops, emitted,
                   start, suspended, preempted, header>>

\* The writer that made the first calls goes on.
Continue ==
    /\ twin.phase = "continued"
    /\ Next
    /\ Conforms

\* Writer(dest, n) over the n bytes of the first calls, once the continuing
\* writer has made all the calls; what that one appended is kept.
Resume ==
    /\ twin.phase = "continued"
    /\ pc = "idle"
    /\ calls = twin.calls0 + Len(twin.plan.todo)
    /\ twin' = [twin EXCEPT !.phase = "resumed",
                            !.appended = SubSeq(dest_, twin.base + 1,
                                                Len(dest_))]
    /\ block_offset_' = InitialOffset(twin.n)
    /\ dest_' = Existing(twin.n)
    /\ calls' = twin.calls0
    /\ failures' = 0
    /\ pc' = "idle"
    /\ slice' = 0
    /\ ptr' = 0
    /\ left' = 0
    /\ begin' = FALSE
    /\ s' = "ok"
    /\ fragment_length' = 0
    /\ type' = kZeroType
    /\ buf' = HeaderOf(kZeroType, 0)
    /\ ops' = <<>>
    /\ emitted' = <<>>
    /\ start' = [off |-> InitialOffset(twin.n), dest |-> Existing(twin.n),
                 id |-> twin.calls0]
    /\ UNCHANGED <<suspended, preempted, header>>

\* The resumed writer makes the same calls.
Replay ==
    /\ twin.phase = "resumed"
    /\ Next
    /\ Conforms

NextResume ==
    \/ FirstCalls
    \/ Fork
    \/ Continue
    \/ Resume
    \/ Replay

SpecResume == InitFresh /\ [][NextResume]_vars

\* ------------------------------------------------ the header of a chunk
\* A uint32_t is kept as its two 16-bit halves.
U32(hi, lo) == [hi |-> hi, lo |-> lo]

\* crc32c::Value and crc32c::Extend are pure functions whose values are of
\* no concern here; these stand in for them.  A payload is known by its
\* length.
Value(byte) ==
    U32((40503 * (byte + 1)) % 65536, (257 * (31 * byte + 7)) % 65536)

Extend(seed, length) ==
    U32((seed.hi + 251 * length + 1) % 65536,
        (3 * seed.lo + 977 * length + (length \div 256)) % 65536)

kMaxRecordType == kLastType

\* Mutant: the table is filled one entry off.
type_crc__Shifted == [i \in 0..kMaxRecordType |-> Value(i + 1)]

\* InitTypeCrc: type_crc[i] = crc32c::Value(&t, 1) with t = i, for
\* i = 0 .. kMaxRecordType.
type_crc_ == [i \in 0..kMaxRecordType |-> Value(i)]

Swap16(v) == U32(v.lo, v.hi)

RotateLeft1(v) ==
    U32(((2 * v.hi) % 65536) + (v.lo \div 32768),
        ((2 * v.lo) % 65536) + (v.hi \div 32768))

RotateRight1(v) ==
    U32((v.hi \div 2) + 32768 * (v.lo % 2),
        (v.lo \div 2) + 32768 * (v.hi % 2))

\* kMaskDelta = 0xa282ead8
kMaskDelta == U32(41602, 60120)

\* crc32c::Mask: ((crc >> 15) | (crc << 17)) + kMaskDelta
Mask(crc) ==
    LET rot == RotateLeft1(Swap16(crc))
        lo == rot.lo + kMaskDelta.lo
    IN U32((rot.hi + kMaskDelta.hi + (lo \div 65536)) % 65536, lo % 65536)

\* crc32c::Unmask: rot = masked_crc - kMaskDelta; (rot >> 17) | (rot << 15)
Unmask(masked_crc) ==
    LET lo == masked_crc.lo - kMaskDelta.lo
        borrow == IF lo < 0 THEN 1 ELSE 0
        rot == U32((masked_crc.hi - kMaskDelta.hi - borrow + 65536) % 65536,
                   (lo + 65536) % 65536)
    IN RotateRight1(Swap16(rot))

\* EncodeFixed32: the four bytes of value, the least significant first.
EncodeFixed32(value) ==
    <<value.lo % 256, value.lo \div 256, value.hi % 256, value.hi \div 256>>

\* DecodeFixed32: the value of four bytes, the least significant first.
DecodeFixed32(bytes) ==
    U32(bytes[3] + 256 * bytes[4], bytes[1] + 256 * bytes[2])

\* Mutant: the checksum is stored as computed.
StoredCrc_Unmasked(t, length) == Extend(type_crc_[t], length)

\* crc = crc32c::Extend(type_crc_[t], ptr, length); crc = crc32c::Mask(crc);
StoredCrc(t, length) == Mask(Extend(type_crc_[t], length))

\* The type tags and lengths EmitPhysicalRecord accepts.
HeaderTypes == kFullType..kLastType

HeaderLengths == 0..MaxChunkLength

\* EmitPhysicalRecord is about to be given t and length bytes at ptr.
InitHeader ==
    /\ \E t \in HeaderTypes, length \in HeaderLengths :
          header = [phase |-> "input", t |-> t, length |-> length]
    /\ block_offset_ = InitialOffset(0)
    /\ dest_ = Existing(0)
    /\ suspended = IdleCaller(InitialOffset(0), Existing(0))
    /\ preempted = 0
    /\ twin = NoTwin
    /\ pc = "idle"
    /\ calls = 0
    /\ failures = 0
    /\ slice = 0
    /\ ptr = 0
    /\ left = 0
    /\ begin = FALSE
    /\ s = "ok"
    /\ fragment_length = 0
    /\ type = kZeroType
    /\ buf = HeaderOf(kZeroType, 0)
    /\ ops = <<>>
    /\ emitted = <<>>
    /\ start = [off |-> InitialOffset(0), dest |-> Existing(0), id |-> 0]

\* Format the header: buf[4], buf[5], buf[6], the crc, EncodeFixed32(buf, crc).
FormatHeader ==
    /\ header.phase = "input"
    /\ LET h == HeaderOf(header.t, header.length) IN
         header' = [phase |-> "formatted", t |-> header.t,
                    length |-> header.length,
                    buf |-> EncodeFixed32(StoredCrc(header.t, header.length))
                            \o <<h.b4, h.b5, h.b6>>]
    /\ UNCHANGED <<block_offset_, dest_, pc, calls, failures, slice, ptr,
                   left, begin, s, fragment_length, type, buf, ops, emitted,
                   start, suspended, preempted, twin>>

NextHeader == FormatHeader

SpecHeader == InitHeader /\ [][NextHeader]_vars

\* ============================================================ properties
\* An AddRecord call has returned; s is the Status it returned.
Returned == pc = "idle" /\ calls > 0

ReturnedOk == Returned /\ s = "ok"

ReturnedError == Returned /\ s = "IOError"

\* The runs the call in progress (or the last call) has added to the sink.
CallRuns == SubSeq(dest_, Len(start.dest) + 1, Len(dest_))

IsPad(r) == r.kind = "pad"

IsHdr(r) == r.kind = "hdr"

IsData(r) == r.kind = "data"

NotPad(r) == ~IsPad(r)

\* The chunk bytes of the call: its runs without the block trailers.
Framing == SelectSeq(CallRuns, NotPad)

\* The 16-bit little-endian length field of a header, bytes 4 and 5.
LengthField(h) == h.b4 + 256 * h.b5

\* The stream offset at which run i of the sink starts.
OffsetOfRun(i) == SumN(SubSeq(dest_, 1, i - 1))

EmittedTypes == [i \in 1..Len(emitted) |-> emitted[i].type]

\* Full alone, or First, Middle*, Last.
WellFormedTypes(ts) ==
    /\ Len(ts) >= 1
    /\ IF Len(ts) = 1
       THEN ts[1] = kFullType
       ELSE /\ ts[1] = kFirstType
            /\ ts[Len(ts)] = kLastType
            /\ \A i \in 2..(Len(ts) - 1) : ts[i] = kMiddleType

\* Chunk i of the call is in the sink whole: a 7-byte header with the type
\* and length of the i-th EmitPhysicalRecord call, then exactly its payload.
FullyFramed(i) ==
    /\ Len(Framing) >= 2 * i
    /\ IsHdr(Framing[2 * i - 1])
    /\ Framing[2 * i - 1].n = kHeaderSize
    /\ Framing[2 * i - 1].b6 = emitted[i].type
    /\ LengthField(Framing[2 * i - 1]) = emitted[i].length
    /\ IsData(Framing[2 * i])
    /\ Framing[2 * i].n = emitted[i].length
    /\ Framing[2 * i].from = emitted[i].from
    /\ Framing[2 * i].call = calls

\* C1: a successful AddRecord emits either one Full chunk, or one First, then
\* zero or more Middle, then one Last chunk; and no call, successful or not,
\* ever emits a chunk whose type tag is Zero or outside {Full, First, Middle,
\* Last}, in the EmitPhysicalRecord calls and in the header bytes in the sink.
C1_ChunkTypeSequence ==
    /\ \A i \in 1..Len(emitted) :
          emitted[i].type \in {kFullType, kFirstType, kMiddleType, kLastType}
    /\ \A i \in 1..Len(CallRuns) :
          (IsHdr(CallRuns[i]) /\ CallRuns[i].n = kHeaderSize) =>
              CallRuns[i].b6 \in {kFullType, kFirstType, kMiddleType, kLastType}
    /\ ReturnedOk =>
          /\ WellFormedTypes(EmittedTypes)
          /\ Len(Framing) = 2 * Len(emitted)
          /\ \A i \in 1..Len(emitted) :
                Framing[2 * i - 1].b6 = emitted[i].type

\* A successful call that began in mid-block and emitted First, Middle, Last.
C1_Witness ==
    /\ ReturnedOk
    /\ start.off \notin {0, kBlockSize}
    /\ EmittedTypes = <<kFirstType, kMiddleType, kLastType>>

\* C2: after a successful AddRecord the payloads of its chunks, in emission
\* order, are the caller's payload byte for byte: chunk i carries the bytes
\* that follow those of chunk i-1, starting at byte 0, the lengths sum to the
\* record length, and each header's length field is the number of payload
\* bytes appended after it.
C2_PayloadPreserved ==
    ReturnedOk =>
        /\ Len(Framing) = 2 * Len(emitted)
        /\ \A i \in 1..Len(emitted) :
              /\ IsHdr(Framing[2 * i - 1])
              /\ Framing[2 * i - 1].n = kHeaderSize
              /\ IsData(Framing[2 * i])
              /\ Framing[2 * i].call = calls
              /\ Framing[2 * i].n = LengthField(Framing[2 * i - 1])
              /\ Framing[2 * i].from =
                    IF i = 1 THEN 0
                    ELSE Framing[2 * i - 2].from + Framing[2 * i - 2].n
        /\ Len(Framing) >= 2
        /\ Framing[Len(Framing)].from + Framing[Len(Framing)].n = slice

\* A successful call that split a 70000-byte record over three chunks.
C2_Witness ==
    /\ ReturnedOk
    /\ slice = 70000
    /\ Len(emitted) = 3
    /\ Framing[6].from + Framing[6].n = 70000

\* The writer was constructed fresh: the sink held nothing.
FreshWriter == dest_ = <<>> \/ dest_[1].kind # "old"

\* No chunk whose header is in the sink straddles a block boundary.
NoChunkStraddles ==
    \A i \in 1..Len(dest_) :
        (IsHdr(dest_[i]) /\ dest_[i].n = kHeaderSize) =>
            (OffsetOfRun(i) % kBlockSize) + kHeaderSize + LengthField(dest_[i])
                <= kBlockSize

C4_AssertionsHold ==
    /\ pc # "abort"
    /\ pc = "top" => Leftover(block_offset_) >= 0
    /\ pc = "size" => kBlockSize - block_offset_ - kHeaderSize >= 0
    /\ \A i \in 1..Len(emitted) :
          /\ emitted[i].length <= MaxChunkLength
          /\ emitted[i].off + kHeaderSize + emitted[i].length <= kBlockSize

\* A resumed writer, after a sink failure, in its second call, about to
\* emit a further chunk of a fragmented record.
C4_Witness ==
    /\ ~FreshWriter
    /\ failures > 0
    /\ calls = 2
    /\ pc = "hdr"
    /\ Len(emitted) >= 2

\* C5 as stated: once a sink operation of an AddRecord call has failed (any
\* Append, that of the zero padding included, or any Flush), the call issues
\* no further sink operation and returns the error; and it returns success
\* only if every sink operation it issued succeeded.
C5_Original ==
    /\ \A i \in 1..Len(ops) : ~ops[i].ok => i = Len(ops)
    /\ Returned => (s = "ok" <=> \A i \in 1..Len(ops) : ops[i].ok)

\* Nothing in the sink before the call has changed.
EarlierBytesUnchanged ==
    /\ Len(dest_) >= Len(start.dest)
    /\ SubSeq(dest_, 1, Len(start.dest)) = start.dest

\* What a call that returned an error has added to the sink: an optional
\* block trailer first, then every chunk but the last fully framed, each a
\* non-final fragment that continues the payload where the one before ended,
\* then the last chunk, whole or cut short.  padOK admits a trailer that
\* holds bytes; partialHdrOK admits a header cut short.
ErrorShape(padOK, partialHdrOK) ==
    LET k == Len(emitted)
        F == Framing
    IN  /\ k >= 1
        /\ \A i \in 2..Len(CallRuns) : ~IsPad(CallRuns[i])
        /\ (CallRuns # <<>> /\ IsPad(CallRuns[1])) =>
              IF padOK
              THEN /\ start.off \in (kBlockSize - kHeaderSize + 1)..(kBlockSize - 1)
                   /\ CallRuns[1].n <= kBlockSize - start.off
              ELSE CallRuns[1].n = 0
        /\ \A i \in 1..(k - 1) :
              /\ FullyFramed(i)
              /\ emitted[i].type = IF i = 1 THEN kFirstType ELSE kMiddleType
        /\ \A i \in 1..k :
              emitted[i].from =
                  IF i = 1 THEN 0 ELSE emitted[i - 1].from + emitted[i - 1].length
        /\ \/ /\ Len(F) = 2 * k
              /\ IsHdr(F[2 * k - 1])
              /\ F[2 * k - 1].n = kHeaderSize
              /\ F[2 * k - 1].b6 = emitted[k].type
              /\ LengthField(F[2 * k - 1]) = emitted[k].length
              /\ IsData(F[2 * k])
              /\ F[2 * k].from = emitted[k].from
              /\ F[2 * k].n <= emitted[k].length
           \/ /\ Len(F) = 2 * k - 1
              /\ IsHdr(F[2 * k - 1])
              /\ IF partialHdrOK
                 THEN F[2 * k - 1].n < kHeaderSize
                 ELSE F[2 * k - 1].n = 0

\* C6 as stated: when AddRecord returns an error, the earlier bytes of the
\* sink are unchanged and the bytes the call added are zero or more fully
\* framed chunks, a prefix of the record's chunk sequence, followed by at
\* most one partial chunk, which is a whole header whose payload append
\* failed; nothing else, and nothing after the failing chunk.
C6_Original ==
    ReturnedError => (EarlierBytesUnchanged /\ ErrorShape(FALSE, FALSE))

\* C6 amended: the added bytes may begin with up to 6 bytes of block trailer
\* (when the call began with fewer than 7 bytes left in the block), and the
\* partial chunk is a header cut short, or a whole header followed by its
\* payload cut short.
C6_FailedCallBytes ==
    ReturnedError => (EarlierBytesUnchanged /\ ErrorShape(TRUE, TRUE))

\* A call that failed in its third chunk, after two fully framed ones.
C6_Witness ==
    /\ ReturnedError
    /\ Len(emitted) = 3
    /\ Len(Framing) = 6
    /\ Framing[6].n < emitted[3].length

\* C7 as stated: between calls 0 <= block_offset_ < kBlockSize.
C7_Original == pc = "idle" => (0 <= block_offset_ /\ block_offset_ < kBlockSize)

\* C7 amended: between calls 0 <= block_offset_ <= kBlockSize; the cursor is
\* kBlockSize after a chunk that ends exactly at the end of its block.
C7_CursorRange ==
    pc = "idle" => (0 <= block_offset_ /\ block_offset_ <= kBlockSize)

\* A call has returned and left the cursor at the very end of the block.
C7_Witness == Returned /\ block_offset_ = kBlockSize

\* C8: a successful AddRecord of an empty payload emits exactly one chunk,
\* of type Full and length 0, at the cursor where the call began or, when
\* fewer than 7 bytes were left there, at the start of the next block; and
\* it leaves the cursor 7 past the start of that chunk.
C8_EmptyRecord ==
    (ReturnedOk /\ slice = 0) =>
        /\ Len(emitted) = 1
        /\ emitted[1].type = kFullType
        /\ emitted[1].length = 0
        /\ emitted[1].off =
              IF kBlockSize - start.off < kHeaderSize THEN 0 ELSE start.off
        /\ block_offset_ = emitted[1].off + kHeaderSize
        /\ Len(Framing) = 2
        /\ IsHdr(Framing[1])
        /\ Framing[1].n = kHeaderSize
        /\ Framing[1].b4 = 0
        /\ Framing[1].b5 = 0
        /\ Framing[1].b6 = kFullType
        /\ IsData(Framing[2])
        /\ Framing[2].n = 0

\* An empty record written when the cursor stood at the end of a block.
C8_Witness ==
    /\ ReturnedOk
    /\ slice = 0
    /\ start.off = kBlockSize
    /\ block_offset_ = kHeaderSize

\* Payload bytes a chunk that starts a block can carry.
PayloadPerBlock == kBlockSize - kHeaderSize

\* max(1, ceil(L / 32761))
ChunkCount(L) ==
    IF L = 0 THEN 1 ELSE (L + PayloadPerBlock - 1) \div PayloadPerBlock

TypesAndLengths == [i \in 1..Len(emitted) |-> <<emitted[i].type, emitted[i].length>>]

\* C9: a successful AddRecord of L bytes that starts at block_offset_ = 0
\* emits N = max(1, ceil(L / 32761)) chunks, the first N-1 of 32761 payload
\* bytes each and the last of L - 32761*(N-1); 70000 bytes give First/32761,
\* Middle/32761, Last/4478 and cursor 4485; 100 bytes give Full/100 and
\* cursor 107.
C9_FragmentationCount ==
    (ReturnedOk /\ start.off = 0) =>
        LET N == ChunkCount(slice) IN
        /\ Len(emitted) = N
        /\ \A i \in 1..(N - 1) : emitted[i].length = PayloadPerBlock
        /\ emitted[N].length = slice - PayloadPerBlock * (N - 1)
        /\ slice = 70000 =>
              /\ TypesAndLengths = << <<kFirstType, 32761>>,
                                      <<kMiddleType, 32761>>,
                                      <<kLastType, 4478>> >>
              /\ block_offset_ = 4485
        /\ slice = 100 =>
              /\ TypesAndLengths = << <<kFullType, 100>> >>
              /\ block_offset_ = 107

\* The 70000-byte record of a fresh writer has been written.
C9_Witness ==
    /\ ReturnedOk
    /\ calls = 1
    /\ start.off = 0
    /\ slice = 70000
    /\ Len(emitted) = 3

\* The step at the top of the loop body, seen from outside.
C10_Step ==
    /\ pc = "top" =>
        LET lo == kBlockSize - block_offset_ IN
        /\ lo \in 1..(kHeaderSize - 1) =>
              /\ Len(ops') = Len(ops) + 1
              /\ ops'[Len(ops')].what = "pad"
              /\ ops'[Len(ops')].n = lo
              /\ Len(dest_') = Len(dest_) + 1
              /\ SubSeq(dest_', 1, Len(dest_)) = dest_
              /\ IsPad(dest_'[Len(dest_')])
              /\ dest_'[Len(dest_')].n = ops'[Len(ops')].w
              /\ ops'[Len(ops')].ok => dest_'[Len(dest_')].n = lo
              /\ block_offset_' = 0
              /\ failures' = 0 => SumN(dest_') % kBlockSize = 0
        /\ (lo >= kHeaderSize \/ lo = 0) => (dest_' = dest_ /\ ops' = ops)
        /\ lo = 0 => block_offset_' = 0
        /\ lo >= kHeaderSize => block_offset_' = block_offset_
    /\ (pc = "size" /\ ops # <<>> /\ ops[Len(ops)].what = "pad") =>
        /\ Len(emitted') = Len(emitted) + 1
        /\ emitted'[Len(emitted')].off = 0
        /\ failures = 0 => emitted'[Len(emitted')].pos % kBlockSize = 0

\* C10: when 1 to 6 bytes are left in the block at the top of the loop body,
\* the writer appends exactly that many zero bytes, resets block_offset_ to
\* 0, and the chunk that follows starts at offset 0 of the next block; when
\* 7 or more bytes are left, or none, it appends no padding (and with none
\* left it still resets the cursor to 0).
C10_Padding == [][C10_Step]_vars

\* block_offset_ was 32765: three zero bytes went to the sink, and the
\* header of the chunk is being appended at offset 0 of the next block.
C10_Witness ==
    /\ pc = "hdr"
    /\ start.off = 32765
    /\ ops = <<[what |-> "pad", n |-> 3, ok |-> TRUE, w |-> 3]>>
    /\ emitted[1].off = 0
    /\ dest_[Len(dest_)].kind = "pad"
    /\ dest_[Len(dest_)].n = 3

\* What the resumed writer has appended to the n bytes it was given.
ResumedAppended == SubSeq(dest_, Len(Existing(twin.n)) + 1, Len(dest_))

IsPrefix(a, b) == Len(a) <= Len(b) /\ SubSeq(b, 1, Len(a)) = a

\* The resumed writer has made all the calls.
ReplayDone ==
    /\ twin.phase = "resumed"
    /\ pc = "idle"
    /\ calls = twin.calls0 + Len(twin.plan.todo)

\* C11: a Writer constructed with dest_length = n, n the length of a fresh
\* writer's sink after calls that all succeeded, starts with
\* block_offset_ = n mod 32768, and given the same calls as the original
\* writer (and the same sink results) it appends the same runs: the same
\* padding, headers (type and length bytes) and payloads, at every moment a
\* prefix of what the original appended and in the end all of it.  It never
\* fails an assertion and is never left without a step in a call.
C11_ResumeEqualsContinue ==
    twin.phase = "resumed" =>
        /\ (pc = "idle" /\ calls = twin.calls0) =>
               block_offset_ = twin.n % kBlockSize
        /\ IsPrefix(ResumedAppended, twin.appended)
        /\ ReplayDone => ResumedAppended = twin.appended
        /\ pc # "abort"
        /\ ~ReplayDone => ENABLED Replay

\* The original writer went on from the very end of a block (cursor 32768)
\* and the resumed one from cursor 0; the calls crossed a block boundary and
\* one sink operation failed.
C11_Witness ==
    /\ ReplayDone
    /\ twin.n = kBlockSize
    /\ twin.plan.failCall > 0
    /\ failures = 1
    /\ \E i \in 1..Len(twin.appended) : twin.appended[i].b6 = kFirstType
    /\ ResumedAppended = twin.appended

\* C12: the header EmitPhysicalRecord formats for a type tag Full, First,
\* Middle or Last and a length in 0..65535 has seven bytes, each in 0..255;
\* byte 4 plus 256 times byte 5 is the length, byte 6 is the type tag, and
\* bytes 0 to 3 read as a little-endian 32-bit value v give
\* Unmask(v) = Extend(CRC32C(type byte), payload).
C12_HeaderRoundTrip ==
    header.phase = "formatted" =>
        /\ Len(header.buf) = kHeaderSize
        /\ \A i \in 1..Len(header.buf) : header.buf[i] \in 0..255
        /\ header.buf[5] + 256 * header.buf[6] = header.length
        /\ header.buf[7] = header.t
        /\ Unmask(DecodeFixed32(SubSeq(header.buf, 1, 4)))
             = Extend(Value(header.t), header.length)

\* A header whose length needs both length bytes and whose masked checksum
\* differs from the checksum in both halves.
C12_Witness ==
    /\ header.phase = "formatted"
    /\ header.t = kMiddleType
    /\ header.length = kBlockSize - kHeaderSize
    /\ header.buf[5] # 0
    /\ header.buf[6] # 0
    /\ LET v == DecodeFixed32(SubSeq(header.buf, 1, 4))
           crc == Extend(Value(header.t), header.length)
       IN v.hi # crc.hi /\ v.lo # crc.lo

\* The chunk bytes of the whole stream: the header and payload runs.
IsFraming(r) == IsHdr(r) \/ IsData(r)

StreamFraming == SelectSeq(dest_, IsFraming)

\* The stream is a sequence of well-framed chunk sequences, one per logical
\* record (the last one possibly still being written): headers and payloads
\* alternate, each payload is the one its header announces, of the same
\* record, and the chunks go Full, or First, Middle*, Last, each record's
\* chunks next to each other and carrying its bytes in order.
WellFramedStream ==
    LET F == StreamFraming IN
    /\ \A i \in 1..Len(F) :
        IF i % 2 = 1
        THEN /\ IsHdr(F[i])
             /\ F[i].n = kHeaderSize
             /\ IF i = 1 \/ F[i - 2].b6 \in {kFullType, kLastType}
                THEN /\ F[i].b6 \in {kFullType, kFirstType}
                     /\ F[i].from = 0
                ELSE /\ F[i].b6 \in {kMiddleType, kLastType}
                     /\ F[i].call = F[i - 2].call
                     /\ F[i].from = F[i - 1].from + F[i - 1].n
        ELSE /\ IsData(F[i])
             /\ F[i].call = F[i - 1].call
             /\ F[i].from = F[i - 1].from
             /\ F[i].n = LengthField(F[i - 1])
    /\ \A i \in 2..Len(dest_) :
        IsPad(dest_[i]) => ~IsHdr(dest_[i - 1])

\* The framing of the stream is broken.
Interleaved == ~WellFramedStream

LastEmitted == emitted[Len(emitted)]

\* C14: every EmitPhysicalRecord call moves block_offset_ by exactly
\* kHeaderSize + length, whichever of the header Append, the payload Append
\* and the Flush succeeded or failed: the cursor stays put while the sink is
\* driven, and once the call is over it stands 7 + length past the offset it
\* was called at, also when the sink took fewer bytes.
C14_UnconditionalAdvance ==
    /\ (pc \in {"hdr", "data", "flush", "adv"}) =>
          block_offset_ = LastEmitted.off
    /\ (pc \in {"top", "idle"} /\ emitted # <<>>) =>
          block_offset_ = LastEmitted.off + kHeaderSize + LastEmitted.length

\* A chunk of 100 bytes whose header Append failed and left nothing in the
\* sink of a fresh writer: the cursor is at 107, the sink is empty.
C14_Witness ==
    /\ ReturnedError
    /\ calls = 1
    /\ ops = <<[what |-> "hdr", n |-> kHeaderSize, ok |-> FALSE, w |-> 0]>>
    /\ LastEmitted.length = 100
    /\ block_offset_ = 107
    /\ DestSize = 0

\* The number of header Appends among the first i operations of the call:
\* the index of the chunk that operation i belongs to.
RECURSIVE ChunkOfOp(_)
ChunkOfOp(i) ==
    IF i = 0 THEN 0
    ELSE ChunkOfOp(i - 1) + (IF ops[i].what = "hdr" THEN 1 ELSE 0)

\* C15: per chunk the sink sees Append(7-byte header), Append(payload of
\* exactly length bytes), Flush, in this order: a payload Append only right
\* after the successful header Append of its chunk, a Flush only right after
\* a successful payload Append, a header Append only first, after padding or
\* after a successful Flush; a successful payload Append is followed by its
\* Flush before anything else; and padding is followed by a header, not by
\* a Flush.
C15_SinkOperationOrder ==
    /\ \A i \in 1..Len(ops) :
        /\ ops[i].what \in {"pad", "hdr", "data", "flush"}
        /\ ops[i].what = "hdr" =>
              /\ ops[i].n = kHeaderSize
              /\ i = 1 \/ ops[i - 1].what = "pad"
                       \/ (ops[i - 1].what = "flush" /\ ops[i - 1].ok)
        /\ ops[i].what = "data" =>
              /\ i > 1
              /\ ops[i - 1].what = "hdr"
              /\ ops[i - 1].ok
              /\ ChunkOfOp(i) <= Len(emitted)
              /\ ops[i].n = emitted[ChunkOfOp(i)].length
        /\ ops[i].what = "flush" =>
              /\ i > 1
              /\ ops[i - 1].what = "data"
              /\ ops[i - 1].ok
        /\ ops[i].what = "pad" =>
              /\ i = 1 \/ (ops[i - 1].what = "flush" /\ ops[i - 1].ok)
              /\ i < Len(ops) => ops[i + 1].what = "hdr"
        /\ (ops[i].what = "data" /\ ops[i].ok /\ i < Len(ops)) =>
              ops[i + 1].what = "flush"
    /\ (pc \in {"adv", "top", "size", "idle"} /\ ops # <<>>
           /\ ops[Len(ops)].what \in {"hdr", "data"}) =>
          ~ops[Len(ops)].ok
    /\ ChunkOfOp(Len(ops)) \in {Len(emitted), Len(emitted) - 1}

\* A call that padded, then appended and flushed two chunks.
C15_Witness ==
    /\ ReturnedOk
    /\ Len(ops) = 7
    /\ [i \in 1..7 |-> ops[i].what] =
          <<"pad", "hdr", "data", "flush", "hdr", "data", "flush">>

\* The zero bytes the call has appended after its first chunk was emitted:
\* padding runs that follow a header run of the call.
MidRecordPadding ==
    {i \in 1..Len(CallRuns) :
        /\ IsPad(CallRuns[i])
        /\ \E j \in 1..(i - 1) : IsHdr(CallRuns[j])}

\* The padding operations the call has issued after a chunk operation.
MidRecordPadOps ==
    {i \in 2..Len(ops) : ops[i].what = "pad"}

C17_NonFinalChunksFillBlock ==
    /\ \A i \in 1..Len(emitted) :
        /\ emitted[i].type \in {kFirstType, kMiddleType} =>
              emitted[i].off + kHeaderSize + emitted[i].length = kBlockSize
        /\ emitted[i].type \in {kMiddleType, kLastType} => emitted[i].off = 0
        /\ emitted[i].type = kMiddleType =>
              emitted[i].length = kBlockSize - kHeaderSize
    /\ (pc = "top" /\ emitted # <<>>) => block_offset_ = kBlockSize
    /\ (pc \in {"top", "idle"} /\ emitted # <<>>
           /\ LastEmitted.type \in {kFirstType, kMiddleType}) =>
          block_offset_ = kBlockSize

\* A record that began in mid-block and went First, Middle, Last.
C17_Witness ==
    /\ ReturnedOk
    /\ start.off \in 1..(kBlockSize - kHeaderSize - 1)
    /\ EmittedTypes = <<kFirstType, kMiddleType, kLastType>>
    /\ emitted[1].length < kBlockSize - kHeaderSize

\* C18: a chunk of payload length 0 is either the Full chunk of an empty
\* record, or the First chunk of a non-empty record emitted when exactly 7
\* bytes were left in the block; Middle and Last chunks carry at least
\* one byte.
C18_ZeroLengthChunks ==
    \A i \in 1..Len(emitted) :
        /\ emitted[i].length >= 0
        /\ emitted[i].length = 0 =>
              \/ emitted[i].type = kFullType /\ slice = 0
              \/ /\ emitted[i].type = kFirstType
                 /\ slice > 0
                 /\ i = 1
                 /\ emitted[i].off = kBlockSize - kHeaderSize
        /\ emitted[i].type \in {kMiddleType, kLastType} =>
              emitted[i].length >= 1

\* A First chunk without payload: exactly 7 bytes were left in the block.
C18_Witness ==
    /\ ReturnedOk
    /\ slice > 0
    /\ start.off = kBlockSize - kHeaderSize
    /\ emitted[1].type = kFirstType
    /\ emitted[1].length = 0

\* ceil(L / 32761) + 1
IterationBound(L) == (L + PayloadPerBlock - 1) \div PayloadPerBlock + 1

\* C19: a call of AddRecord on L bytes goes through the loop body at most
\* ceil(L / 32761) + 1 times: two consecutive iterations consume at least
\* one payload byte between them, an iteration that consumes none is
\* followed by one at offset 0 of a block, the bytes left never go below 0,
\* and a call in progress can always take its next step, so that the call
\* returns once the sink has answered each operation.
C19_Termination ==
    /\ Len(emitted) <= IterationBound(slice)
    /\ \A i \in 1..(Len(emitted) - 1) :
        /\ emitted[i].length + emitted[i + 1].length >= 1
        /\ emitted[i].length = 0 => emitted[i + 1].off = 0
    /\ left >= 0
    /\ pc \in {"top", "size", "hdr", "data", "flush", "adv"} => ENABLED Next

\* A call that needed every iteration the bound allows: 32762 bytes written
\* with exactly 7 bytes left in the block take three chunks.
C19_Witness ==
    /\ ReturnedOk
    /\ slice = 32762
    /\ start.off = kBlockSize - kHeaderSize
    /\ Len(emitted) = 3
    /\ IterationBound(slice) = 3

====
